---- MODULE Spec2Model ----
(***************************************************************************)
(* notion-cli: the NotionWrapper facade (modules/notion.ts), the block     *)
(* flattener (modules/notionUtils.js) and the command surface (index.ts),  *)
(* run against a remote document service that answers each request with a *)
(* result or with a failure.                                               *)
(***************************************************************************)
EXTENDS Integers, Sequences, FiniteSets, TLC

VARIABLES
  token,      \* process.env.NOTION_TOKEN is set (truthy)
  pageId,     \* NotionWrapper.pageId
  blocks,     \* remote service: block id -> [type, payload, archived]
  kids,       \* remote service: page/block id -> sequence of child block ids
  muts,       \* remote service: number of accepted mutating requests
  op,         \* the facade operation being run, with its arguments
  pc,         \* where that operation is suspended
  stack,      \* frames of processBlockWithChildren, innermost last
  topBlocks,  \* getPageBlocks: response.results of the top-level listing
  topIdx,     \* getPageBlocks: position of the for loop over topBlocks
  acc,        \* getPageBlocks: the local array `blocks`
  inflight,   \* indices (in calls) of the requests not yet answered
  calls,      \* the remote requests issued by the current operation
  console,    \* console.error / console.warn / console.log lines of the run
  outcome,    \* what the facade operation returned or threw
  cli,        \* command surface: "none", "running" or "exited"
  exitCode,   \* exit status of the command's process
  probe,      \* input and output of one extractTextContent application
  configured  \* the identifier last given to the wrapper: config.pageId at
              \* construction, then the argument of the latest setPageId call

remoteVars == <<blocks, kids, muts>>
flatVars == <<stack, topBlocks, topIdx, acc>>
cliVars == <<cli, exitCode>>
vars == <<token, pageId, blocks, kids, muts, op, pc, stack, topBlocks, topIdx,
          acc, inflight, calls, console, outcome, cli, exitCode, probe, configured>>

----------------------------------------------------------------------------
(* Bounds of the model *)

\* blocks the append requests of one run may create
MaxNew == 1
\* mutating requests (append, delete, update) the remote accepts in one run
MaxMutations == 2
\* rich-text segments of a block handed to extractTextContent on its own
MaxSegs == 2

----------------------------------------------------------------------------
(* JavaScript values *)

Undefined == "<undefined>"
Null == "<null>"
\* an optional value is a sequence of length at most one
None == << >>
Some(x) == <<x>>

\* what `if (v)`, `!v` and `v || w` test
Truthy(v) == v \notin {Undefined, Null, ""}

\* a ?? b
OrElse_nullish(a, b) == IF a \in {Undefined, Null} THEN b ELSE a

\* a || b
OrElse(a, b) == IF Truthy(a) THEN a ELSE b

----------------------------------------------------------------------------
(* The remote document service *)

NOTION_PAGE_ID == "P1"
Pages == {"P1", "P2"}
InitialBlocks == {"A", "B", "C"}
FreshIds == [i \in 1..MaxNew |-> "N" \o ToString(i)]
Texts == {"hi"}
Errors == {"network", "rejected"}

Seg(s) == [plain_text |-> Some(s)]
ParagraphPayload(segs) == Some([rich_text |-> Some(segs)])

Containers == Pages \cup InitialBlocks \cup {FreshIds[i] : i \in 1..MaxNew}

LiveKids(x) == SelectSeq(kids[x], LAMBDA c : ~blocks[c].archived)

\* the block object the service returns for a block id
BlockObject(id) ==
  [id |-> id, type |-> blocks[id].type, payload |-> blocks[id].payload,
   has_children |-> LiveKids(id) # << >>, archived |-> blocks[id].archived]

\* results of blocks.children.list
ListResults(x) == [i \in 1..Len(LiveKids(x)) |-> BlockObject(LiveKids(x)[i])]

PageObject(p) == [object |-> "page", id |-> p]

\* the service accepts a request only with the credential, on an object it holds;
\* a mutation only on a block that is not archived, an update with a paragraph
\* payload only on a paragraph
CanRetrievePage(p) == token /\ p \in Pages
CanList(x) == token /\ (x \in Pages \/ x \in DOMAIN blocks)
CanRetrieve(id) == token /\ id \in DOMAIN blocks
CanDelete(id) == token /\ id \in DOMAIN blocks /\ ~blocks[id].archived
CanUpdate(id) ==
  /\ token
  /\ id \in DOMAIN blocks /\ ~blocks[id].archived /\ blocks[id].type = "paragraph"
HasFresh == \E i \in 1..MaxNew : FreshIds[i] \notin DOMAIN blocks
NextFresh ==
  FreshIds[CHOOSE i \in 1..MaxNew :
             /\ FreshIds[i] \notin DOMAIN blocks
             /\ \A j \in 1..(i - 1) : FreshIds[j] \in DOMAIN blocks]
CanAppend(x) ==
  /\ token
  /\ x \in Pages \/ (x \in DOMAIN blocks /\ ~blocks[x].archived)
  /\ HasFresh

----------------------------------------------------------------------------
(* notionUtils.js *)

\* richText.map(t => t.plain_text || "").join("")
RECURSIVE JoinPlain(_)
JoinPlain(segs) ==
  IF segs = << >> THEN ""
  ELSE (IF Head(segs).plain_text = None THEN "" ELSE Head(segs).plain_text[1])
       \o JoinPlain(Tail(segs))

\* richText is the optional rich_text member of the payload
getPlainTextFromRichText(richText) ==
  IF richText = None THEN "" ELSE JoinPlain(richText[1])

\* an extractTextContent that also wants the list to be non-empty
extractTextContent_nonEmpty(block) ==
  IF /\ block.payload # None
     /\ block.payload[1].rich_text # None
     /\ block.payload[1].rich_text[1] # << >>
  THEN getPlainTextFromRichText(block.payload[1].rich_text)
  ELSE "[" \o block.type \o "]"

extractTextContent(block) ==
  IF block.payload # None /\ block.payload[1].rich_text # None
  THEN getPlainTextFromRichText(block.payload[1].rich_text)
  ELSE "[" \o block.type \o "]"

\* the record processBlockWithChildren pushes first
SimpleBlock(block, parentId) ==
  [blockId |-> block.id, text |-> extractTextContent(block),
   blockType |-> block.type, parentBlockId |-> parentId]

----------------------------------------------------------------------------
(* Requests to the remote service, as the current operation issues them *)

Request(api, id, body) ==
  [api |-> api, id |-> id, body |-> body, st |-> "pending", err |-> ""]

\* the request the suspended operation is waiting for
Awaited == calls[Len(calls)]

Settled(st, err) ==
  [calls EXCEPT ![Len(calls)].st = st, ![Len(calls)].err = err]

NoOutcome == [status |-> "none", value |-> Undefined, error |-> ""]
Returned(v) == [status |-> "ok", value |-> v, error |-> ""]
Thrown(e) == [status |-> "error", value |-> Undefined, error |-> e]

NoOp == [name |-> "none", text |-> Undefined, parent |-> Undefined, id |-> Undefined]
Op(name, text, parent, id) ==
  [name |-> name, text |-> text, parent |-> parent, id |-> id]

ErrorLine(tag, e) == [stream |-> "error", tag |-> tag, detail |-> e]
WarnLine(tag, t) == [stream |-> "warn", tag |-> tag, detail |-> t]
LogLine(tag) == [stream |-> "log", tag |-> tag, detail |-> ""]

\* no facade operation is running and no command is waiting for one
Idle == pc \in {"idle", "done"} /\ cli # "running"

\* a facade method is entered on a wrapper whose pageId is pid and suspends at
\* its first remote request
Begin(o, pid, at, req) ==
  /\ op' = o
  /\ pageId' = pid
  /\ pc' = at
  /\ calls' = <<req>>
  /\ inflight' = {1}
  /\ console' = << >>
  /\ outcome' = NoOutcome
  /\ stack' = << >>
  /\ topBlocks' = << >>
  /\ topIdx' = 0
  /\ acc' = << >>
  /\ UNCHANGED <<token, remoteVars, probe>>

\* a catch block that logs and does not rethrow
Rethrow_swallowed(tag, e) ==
  /\ calls' = Settled("error", e)
  /\ inflight' = inflight \ {Len(calls)}
  /\ console' = Append(console, ErrorLine(tag, e))
  /\ outcome' = Returned(Undefined)
  /\ pc' = "done"
  /\ UNCHANGED <<token, configured, pageId, remoteVars, op, flatVars, cliVars, probe>>

\* the catch block of a facade method: console.error(...); throw error
Rethrow(tag, e) ==
  /\ calls' = Settled("error", e)
  /\ inflight' = inflight \ {Len(calls)}
  /\ console' = Append(console, ErrorLine(tag, e))
  /\ outcome' = Thrown(e)
  /\ pc' = "done"
  /\ UNCHANGED <<token, configured, pageId, remoteVars, op, flatVars, cliVars, probe>>

\* return response
Return(v) ==
  /\ calls' = Settled("ok", "")
  /\ inflight' = inflight \ {Len(calls)}
  /\ outcome' = Returned(v)
  /\ pc' = "done"
  /\ UNCHANGED <<token, configured, pageId, op, flatVars, console, cliVars, probe>>

----------------------------------------------------------------------------
(* NotionWrapper *)

\* a setPageId whose assignment misses the field (pageId = pageId)
setPageId_unassigned(p) ==
  /\ Idle
  /\ UNCHANGED pageId
  /\ op' = Op("setPageId", Undefined, Undefined, p)
  /\ pc' = "done"
  /\ outcome' = Returned(Undefined)
  /\ calls' = << >>
  /\ inflight' = {}
  /\ console' = << >>
  /\ stack' = << >> /\ topBlocks' = << >> /\ topIdx' = 0 /\ acc' = << >>
  /\ cli' = "none"
  /\ configured' = p
  /\ UNCHANGED <<token, remoteVars, exitCode, probe>>

\* a setPageId that first looks the page up
setPageId_validates(p) ==
  /\ Idle
  /\ pageId' = p
  /\ op' = Op("setPageId", Undefined, Undefined, p)
  /\ pc' = "done"
  /\ outcome' = Returned(Undefined)
  /\ calls' = <<[Request("pages.retrieve", p, "") EXCEPT !.st = "ok"]>>
  /\ inflight' = {}
  /\ console' = << >>
  /\ stack' = << >> /\ topBlocks' = << >> /\ topIdx' = 0 /\ acc' = << >>
  /\ cli' = "none"
  /\ configured' = p
  /\ UNCHANGED <<token, remoteVars, exitCode, probe>>

setPageId(p) ==
  /\ Idle
  /\ pageId' = p
  /\ op' = Op("setPageId", Undefined, Undefined, p)
  /\ pc' = "done"
  /\ outcome' = Returned(Undefined)
  /\ calls' = << >>
  /\ inflight' = {}
  /\ console' = << >>
  /\ stack' = << >> /\ topBlocks' = << >> /\ topIdx' = 0 /\ acc' = << >>
  /\ cli' = "none"
  /\ configured' = p
  /\ UNCHANGED <<token, remoteVars, exitCode, probe>>

getPageId ==
  /\ Idle
  /\ op' = Op("getPageId", Undefined, Undefined, Undefined)
  /\ pc' = "done"
  /\ outcome' = Returned(pageId)
  /\ calls' = << >>
  /\ inflight' = {}
  /\ console' = << >>
  /\ stack' = << >> /\ topBlocks' = << >> /\ topIdx' = 0 /\ acc' = << >>
  /\ cli' = "none"
  /\ UNCHANGED <<token, configured, pageId, remoteVars, exitCode, probe>>

\* getPage, up to its await
getPageCall(pid) ==
  Begin(Op("getPage", Undefined, Undefined, Undefined), pid, "getPage",
        Request("pages.retrieve", pid, ""))

getPageOk ==
  /\ pc = "getPage"
  /\ CanRetrievePage(Awaited.id)
  /\ Return(PageObject(Awaited.id))
  /\ UNCHANGED remoteVars

getPageFail(e) ==
  /\ pc = "getPage"
  /\ Rethrow("Error retrieving Notion page:", e)

\* addText, up to its await
addTextCall(pid, text, parentBlock) ==
  Begin(Op("addText", text, parentBlock, Undefined), pid, "addText",
        Request("blocks.children.append", OrElse(parentBlock, pid), text))

\* the service creates the paragraph under the request's block_id
addTextOk ==
  /\ pc = "addText"
  /\ CanAppend(Awaited.id)
  /\ LET n == NextFresh
         created == [type |-> "paragraph",
                     payload |-> ParagraphPayload(<<Seg(Awaited.body)>>),
                     archived |-> FALSE]
     IN /\ blocks' = (n :> created) @@ blocks
        /\ kids' = [kids EXCEPT ![Awaited.id] = Append(@, n)]
        /\ muts' = muts + 1
        /\ Return([results |-> <<[id |-> n, type |-> created.type,
                                  payload |-> created.payload,
                                  parent |-> Awaited.id]>>])

addTextFail(e) ==
  /\ pc = "addText"
  /\ Rethrow("Error adding text to Notion:", e)

\* deleteBlock, up to its await
deleteBlockCall(pid, blockId) ==
  Begin(Op("deleteBlock", Undefined, Undefined, blockId), pid, "deleteBlock",
        Request("blocks.delete", blockId, ""))

\* a deleteBlock that returns the block as it was before the request
deleteBlockOk_stale ==
  /\ pc = "deleteBlock"
  /\ CanDelete(Awaited.id)
  /\ blocks' = [blocks EXCEPT ![Awaited.id].archived = TRUE]
  /\ muts' = muts + 1
  /\ UNCHANGED kids
  /\ Return(BlockObject(Awaited.id))

\* the service archives the block and returns it
deleteBlockOk ==
  /\ pc = "deleteBlock"
  /\ CanDelete(Awaited.id)
  /\ blocks' = [blocks EXCEPT ![Awaited.id].archived = TRUE]
  /\ muts' = muts + 1
  /\ UNCHANGED kids
  /\ Return([BlockObject(Awaited.id) EXCEPT !.archived = TRUE])

deleteBlockFail(e) ==
  /\ pc = "deleteBlock"
  /\ Rethrow("Error deleting block from Notion:", e)

\* updateBlock, up to its first await
updateBlockCall(pid, blockId, text) ==
  Begin(Op("updateBlock", text, Undefined, blockId), pid, "updateBlock.retrieve",
        Request("blocks.retrieve", blockId, ""))

\* an updateBlock that throws on a non-paragraph instead of warning
updateBlockRetrieved_rejects ==
  /\ pc = "updateBlock.retrieve"
  /\ CanRetrieve(Awaited.id)
  /\ IF BlockObject(Awaited.id).type # "paragraph"
     THEN /\ calls' = Settled("ok", "")
          /\ inflight' = inflight \ {Len(calls)}
          /\ console' = Append(console, ErrorLine("Error updating block in Notion:",
                                                  "unsupported"))
          /\ outcome' = Thrown("unsupported")
          /\ pc' = "done"
     ELSE /\ calls' = Append(Settled("ok", ""), Request("blocks.update", op.id, op.text))
          /\ inflight' = (inflight \ {Len(calls)}) \cup {Len(calls) + 1}
          /\ pc' = "updateBlock.update"
          /\ UNCHANGED <<console, outcome>>
  /\ UNCHANGED <<token, configured, pageId, remoteVars, op, flatVars, cliVars, probe>>

\* blockInfo arrives: warn on a non-paragraph, then issue the update
updateBlockRetrieved ==
  /\ pc = "updateBlock.retrieve"
  /\ CanRetrieve(Awaited.id)
  /\ LET blockInfo == BlockObject(Awaited.id)
     IN console' = IF blockInfo.type # "paragraph"
                   THEN Append(console, WarnLine("is not supported for text updates",
                                                 blockInfo.type))
                   ELSE console
  /\ calls' = Append(Settled("ok", ""), Request("blocks.update", op.id, op.text))
  /\ inflight' = (inflight \ {Len(calls)}) \cup {Len(calls) + 1}
  /\ pc' = "updateBlock.update"
  /\ UNCHANGED <<token, configured, pageId, remoteVars, op, flatVars, outcome, cliVars, probe>>

updateBlockOk ==
  /\ pc = "updateBlock.update"
  /\ CanUpdate(Awaited.id)
  /\ LET p == ParagraphPayload(<<Seg(Awaited.body)>>)
     IN /\ blocks' = [blocks EXCEPT ![Awaited.id].payload = p]
        /\ Return([BlockObject(Awaited.id) EXCEPT !.payload = p])
  /\ muts' = muts + 1
  /\ UNCHANGED kids

updateBlockFail(e) ==
  /\ pc \in {"updateBlock.retrieve", "updateBlock.update"}
  /\ Rethrow("Error updating block in Notion:", e)

----------------------------------------------------------------------------
(* getPageBlocks and the flattener *)

\* a getPageBlocks that lists the default page instead of this.pageId
getPageBlocksCall_defaultPage(pid) ==
  Begin(Op("getPageBlocks", Undefined, Undefined, Undefined), pid, "getPageBlocks.list",
        Request("blocks.children.list", NOTION_PAGE_ID, ""))

\* getPageBlocks, up to its first await
getPageBlocksCall(pid) ==
  Begin(Op("getPageBlocks", Undefined, Undefined, Undefined), pid, "getPageBlocks.list",
        Request("blocks.children.list", pid, ""))

\* requests for the listings of the given blocks, all issued at once
RECURSIVE Prefetch(_)
Prefetch(bs) ==
  IF bs = << >> THEN << >>
  ELSE (IF Head(bs).has_children
        THEN <<Request("blocks.children.list", Head(bs).id, "")>> ELSE << >>)
       \o Prefetch(Tail(bs))

\* a getPageBlocks that starts the child listings of all top-level blocks
\* together (Promise.all) before it walks them
getPageBlocksListed_parallel ==
  /\ pc = "getPageBlocks.list"
  /\ CanList(Awaited.id)
  /\ topBlocks' = ListResults(Awaited.id)
  /\ topIdx' = 1
  /\ acc' = << >>
  /\ calls' = Settled("ok", "") \o Prefetch(ListResults(Awaited.id))
  /\ inflight' = {k \in 2..(1 + Len(Prefetch(ListResults(Awaited.id)))) : TRUE}
  /\ pc' = "getPageBlocks.loop"
  /\ UNCHANGED <<token, configured, pageId, remoteVars, op, stack, console, outcome,
                 cliVars, probe>>

\* the top-level listing arrives: const blocks = []; the for loop starts
getPageBlocksListed ==
  /\ pc = "getPageBlocks.list"
  /\ CanList(Awaited.id)
  /\ topBlocks' = ListResults(Awaited.id)
  /\ topIdx' = 1
  /\ acc' = << >>
  /\ calls' = Settled("ok", "")
  /\ inflight' = inflight \ {Len(calls)}
  /\ pc' = "getPageBlocks.loop"
  /\ UNCHANGED <<token, configured, pageId, remoteVars, op, stack, console, outcome, cliVars, probe>>

getPageBlocksFail(e) ==
  /\ pc = "getPageBlocks.list"
  /\ Rethrow("Error retrieving page blocks from Notion:", e)

\* processBlockWithChildren from its entry to its first await (a block with
\* children) or to its return (a block without)
Frame(block, parentId) ==
  [block |-> block, parentId |-> parentId,
   results |-> <<SimpleBlock(block, parentId)>>,
   children |-> << >>, i |-> 0,
   pc |-> IF block.has_children THEN "await" ELSE "return"]

\* processBlockWithChildren(block, client, parentId) is called
Invoke(block, parentId) ==
  /\ stack' = Append(stack, Frame(block, parentId))
  /\ IF block.has_children
     THEN /\ calls' = Append(calls, Request("blocks.children.list", block.id, ""))
          /\ inflight' = inflight \cup {Len(calls) + 1}
     ELSE UNCHANGED <<calls, inflight>>
  /\ UNCHANGED <<token, configured, pageId, remoteVars, op, pc, topBlocks, topIdx, acc, console,
                 outcome, cliVars, probe>>

Top == stack[Len(stack)]

\* getPageBlocks' loop body: await getTextFromBlock(block, this.client)
getTextFromBlock ==
  /\ pc = "getPageBlocks.loop"
  /\ stack = << >>
  /\ topIdx <= Len(topBlocks)
  /\ Invoke(topBlocks[topIdx], Null)

\* a loop body that hands its own parentId down instead of block.id
processChild_parentOfParent ==
  /\ pc = "getPageBlocks.loop"
  /\ stack # << >>
  /\ Top.pc = "loop"
  /\ Top.i <= Len(Top.children)
  /\ Invoke(Top.children[Top.i], Top.parentId)

\* the flattener's loop body: await processBlockWithChildren(childBlock, client, block.id)
processChild ==
  /\ pc = "getPageBlocks.loop"
  /\ stack # << >>
  /\ Top.pc = "loop"
  /\ Top.i <= Len(Top.children)
  /\ Invoke(Top.children[Top.i], Top.block.id)

\* childrenResponse arrives
childrenListed ==
  /\ pc = "getPageBlocks.loop"
  /\ stack # << >>
  /\ Top.pc = "await"
  /\ CanList(Awaited.id)
  /\ stack' = [stack EXCEPT ![Len(stack)].children = ListResults(Awaited.id),
                            ![Len(stack)].i = 1,
                            ![Len(stack)].pc = "loop"]
  /\ calls' = Settled("ok", "")
  /\ inflight' = inflight \ {Len(calls)}
  /\ UNCHANGED <<token, configured, pageId, remoteVars, op, pc, topBlocks, topIdx, acc, console,
                 outcome, cliVars, probe>>

\* a flattener without the inner try/catch: the failure reaches getPageBlocks' catch
childrenFail_propagates(e) ==
  /\ pc = "getPageBlocks.loop"
  /\ stack # << >>
  /\ Top.pc = "await"
  /\ Rethrow("Error retrieving page blocks from Notion:", e)

\* the listing of the children fails: the catch logs and falls through
childrenFail(e) ==
  /\ pc = "getPageBlocks.loop"
  /\ stack # << >>
  /\ Top.pc = "await"
  /\ stack' = [stack EXCEPT ![Len(stack)].pc = "return"]
  /\ calls' = Settled("error", e)
  /\ inflight' = inflight \ {Len(calls)}
  /\ console' = Append(console, ErrorLine("Error fetching children for block",
                                          Top.block.id))
  /\ UNCHANGED <<token, configured, pageId, remoteVars, op, pc, topBlocks, topIdx, acc, outcome,
                 cliVars, probe>>

\* results.unshift(...childResults)
Push_unshift(into, pushed) == pushed \o into

\* results.push(...childResults) in the caller, or blocks.push(...processedBlocks)
\* in getPageBlocks
Push(into, pushed) == into \o pushed

\* return results: the caller pushes them and moves to its next block
flattenerReturn ==
  /\ pc = "getPageBlocks.loop"
  /\ stack # << >>
  /\ Top.pc = "return" \/ (Top.pc = "loop" /\ Top.i > Len(Top.children))
  /\ LET rest == SubSeq(stack, 1, Len(stack) - 1)
     IN IF rest = << >>
        THEN /\ stack' = rest
             /\ acc' = Push(acc, Top.results)
             /\ topIdx' = topIdx + 1
        ELSE /\ stack' = [rest EXCEPT
                            ![Len(rest)].results = Push(@, Top.results),
                            ![Len(rest)].i = @ + 1]
             /\ UNCHANGED <<acc, topIdx>>
  /\ UNCHANGED <<token, configured, pageId, remoteVars, op, pc, topBlocks, inflight, calls, console,
                 outcome, cliVars, probe>>

\* return blocks
getPageBlocksReturn ==
  /\ pc = "getPageBlocks.loop"
  /\ stack = << >>
  /\ topIdx > Len(topBlocks)
  /\ outcome' = Returned(acc)
  /\ pc' = "done"
  /\ UNCHANGED <<token, configured, pageId, remoteVars, op, flatVars, inflight, calls, console,
                 cliVars, probe>>

----------------------------------------------------------------------------
(* The facade used as a library, one call at a time (tests/notion.test.ts) *)

getPage ==
  /\ Idle
  /\ cli' = "none" /\ UNCHANGED <<exitCode, configured>>
  /\ getPageCall(pageId)

addText(text, parentBlock) ==
  /\ Idle
  /\ muts < MaxMutations
  /\ cli' = "none" /\ UNCHANGED <<exitCode, configured>>
  /\ addTextCall(pageId, text, parentBlock)

deleteBlock(blockId) ==
  /\ Idle
  /\ muts < MaxMutations
  /\ cli' = "none" /\ UNCHANGED <<exitCode, configured>>
  /\ deleteBlockCall(pageId, blockId)

updateBlock(blockId, text) ==
  /\ Idle
  /\ muts < MaxMutations
  /\ cli' = "none" /\ UNCHANGED <<exitCode, configured>>
  /\ updateBlockCall(pageId, blockId, text)

getPageBlocks ==
  /\ Idle
  /\ cli' = "none" /\ UNCHANGED <<exitCode, configured>>
  /\ getPageBlocksCall(pageId)

----------------------------------------------------------------------------
(* index.ts: the commands *)

\* createNotionClient() returns a wrapper (it throws when this is false)
createNotionClient == token

\* the wrapper's pageId once the action has applied its --id option
CommandPage(id) == IF Truthy(id) THEN id ELSE NOTION_PAGE_ID

\* a command's process starts and its action runs up to the facade call: the
\* wrapper is constructed with NOTION_PAGE_ID and, when the --id option is
\* set, setPageId(options.id) is called
CommandStarts(id) ==
  /\ Idle
  /\ createNotionClient
  /\ cli' = "running"
  /\ exitCode' = 0
  /\ configured' = (IF Truthy(id) THEN id ELSE NOTION_PAGE_ID)

cmdGetPage(id) == CommandStarts(id) /\ getPageCall(CommandPage(id))

cmdAddText(text, id, block) ==
  /\ CommandStarts(id)
  /\ muts < MaxMutations
  /\ addTextCall(CommandPage(id), text, block)

cmdDeleteBlock(blockId) ==
  /\ CommandStarts(Undefined)
  /\ muts < MaxMutations
  /\ deleteBlockCall(NOTION_PAGE_ID, blockId)

cmdListBlocks(id) == CommandStarts(id) /\ getPageBlocksCall(CommandPage(id))

cmdUpdateBlock(blockId, text) ==
  /\ CommandStarts(Undefined)
  /\ muts < MaxMutations
  /\ updateBlockCall(NOTION_PAGE_ID, blockId, text)

CommandTags ==
  {"Error retrieving page:", "Error adding text:", "Error deleting block:",
   "Error listing blocks:", "Error updating block:"}

TagOf(name) ==
  CASE name = "getPage" -> "Error retrieving page:"
    [] name = "addText" -> "Error adding text:"
    [] name = "deleteBlock" -> "Error deleting block:"
    [] name = "getPageBlocks" -> "Error listing blocks:"
    [] name = "updateBlock" -> "Error updating block:"

MissingToken == "Missing required environment variable: NOTION_TOKEN must be set"

\* the exit status of a process whose action has returned: no statement of
\* index.ts sets one or rethrows
StatusAtExit == 0

\* createNotionClient throws; the action's catch prints the error and returns
cmdMissingToken(tag) ==
  /\ Idle
  /\ ~createNotionClient
  /\ console' = <<ErrorLine(tag, MissingToken)>>
  /\ cli' = "exited"
  /\ exitCode' = StatusAtExit
  /\ op' = NoOp
  /\ pc' = "idle"
  /\ calls' = << >>
  /\ inflight' = {}
  /\ outcome' = NoOutcome
  /\ stack' = << >> /\ topBlocks' = << >> /\ topIdx' = 0 /\ acc' = << >>
  /\ UNCHANGED <<token, configured, pageId, remoteVars, probe>>

\* the facade call has settled: the action prints the result, or its catch
\* prints the error, and the process ends
cmdExit ==
  /\ pc = "done"
  /\ cli = "running"
  /\ console' = Append(console,
                       IF outcome.status = "ok" THEN LogLine(op.name)
                       ELSE ErrorLine(TagOf(op.name), outcome.error))
  /\ cli' = "exited"
  /\ exitCode' = StatusAtExit
  /\ UNCHANGED <<token, configured, pageId, remoteVars, op, pc, flatVars, inflight, calls, outcome,
                 probe>>

----------------------------------------------------------------------------
(* Initial states *)

\* the children of x, in the service's order, when B lies under pB and C under pC
KidsOf(x, pB, pC, order) ==
  SelectSeq(order, LAMBDA id : x = (CASE id = "A" -> "P1" [] id = "B" -> pB [] id = "C" -> pC))

NoPayload == None
PayloadsOfC == {NoPayload, ParagraphPayload(<<Seg("Sub")>>)}

Document(pB, pC, payloadC, order) ==
  [b |-> [id \in InitialBlocks |->
            CASE id = "A" -> [type |-> "paragraph",
                              payload |-> ParagraphPayload(<<Seg("Hello, "), Seg("world")>>),
                              archived |-> FALSE]
              [] id = "B" -> [type |-> "paragraph",
                              payload |-> ParagraphPayload(<<Seg("Details")>>),
                              archived |-> FALSE]
              [] id = "C" -> [type |-> IF payloadC = NoPayload THEN "image" ELSE "paragraph",
                              payload |-> payloadC,
                              archived |-> FALSE]],
   k |-> [x \in Containers |-> KidsOf(x, pB, pC, order)]]

Documents ==
  {Document(pB, pC, payloadC, <<"A", "B", "C">>) :
     pB \in {"P1", "A"}, pC \in {"P1", "P2", "A", "B"}, payloadC \in PayloadsOfC}
  \cup {Document("P1", pC, payloadC, <<"C", "B", "A">>) :
          pC \in {"P1", "A"}, payloadC \in PayloadsOfC}

NoProbe ==
  [block |-> [id |-> "", type |-> "", payload |-> None], text |-> Undefined,
   applied |-> FALSE]

\* everything but the remote document and the credential
InitLocal ==
  /\ pageId = NOTION_PAGE_ID
  /\ configured = NOTION_PAGE_ID
  /\ muts = 0
  /\ op = NoOp
  /\ pc = "idle"
  /\ stack = << >> /\ topBlocks = << >> /\ topIdx = 0 /\ acc = << >>
  /\ inflight = {}
  /\ calls = << >>
  /\ console = << >>
  /\ outcome = NoOutcome
  /\ cli = "none"
  /\ exitCode = 0

Init ==
  /\ token \in BOOLEAN
  /\ \E d \in Documents : blocks = d.b /\ kids = d.k
  /\ InitLocal
  /\ probe = NoProbe

PageInputs == Pages
IdOptions == {Undefined, ""} \cup Pages
ParentInputs == {Undefined, ""} \cup DOMAIN blocks

Next ==
  \/ \E p \in PageInputs : setPageId(p)
  \/ getPageId
  \/ getPage
  \/ getPageOk
  \/ \E e \in Errors : getPageFail(e)
  \/ \E t \in Texts, b \in ParentInputs : addText(t, b)
  \/ addTextOk
  \/ \E e \in Errors : addTextFail(e)
  \/ \E b \in DOMAIN blocks : deleteBlock(b)
  \/ deleteBlockOk
  \/ \E e \in Errors : deleteBlockFail(e)
  \/ \E b \in DOMAIN blocks, t \in Texts : updateBlock(b, t)
  \/ updateBlockRetrieved
  \/ updateBlockOk
  \/ \E e \in Errors : updateBlockFail(e)
  \/ getPageBlocks
  \/ getPageBlocksListed
  \/ \E e \in Errors : getPageBlocksFail(e)
  \/ getTextFromBlock
  \/ processChild
  \/ childrenListed
  \/ \E e \in Errors : childrenFail(e)
  \/ flattenerReturn
  \/ getPageBlocksReturn
  \/ \E id \in IdOptions : cmdGetPage(id)
  \/ \E t \in Texts, id \in IdOptions, b \in ParentInputs : cmdAddText(t, id, b)
  \/ \E b \in DOMAIN blocks : cmdDeleteBlock(b)
  \/ \E id \in IdOptions : cmdListBlocks(id)
  \/ \E b \in DOMAIN blocks, t \in Texts : cmdUpdateBlock(b, t)
  \/ \E tag \in CommandTags : cmdMissingToken(tag)
  \/ cmdExit

Spec == Init /\ [][Next]_vars

----------------------------------------------------------------------------
(* extractTextContent on its own *)

ProbeTypes == {"paragraph", "image", "heading_1"}
SegValues == {[plain_text |-> None], Seg(""), Seg("Hello, "), Seg("world")}
SegLists == UNION {[1..n -> SegValues] : n \in 0..MaxSegs}
ProbePayloads ==
  {None, Some([rich_text |-> None])} \cup {ParagraphPayload(segs) : segs \in SegLists}

InitText ==
  /\ token = TRUE
  /\ LET d == Document("P1", "B", NoPayload, <<"A", "B", "C">>) IN blocks = d.b /\ kids = d.k
  /\ InitLocal
  /\ \E t \in ProbeTypes, pl \in ProbePayloads :
       probe = [block |-> [id |-> "X", type |-> t, payload |-> pl],
                text |-> Undefined, applied |-> FALSE]

applyExtractTextContent ==
  /\ ~probe.applied
  /\ probe' = [probe EXCEPT !.text = extractTextContent(probe.block), !.applied = TRUE]
  /\ UNCHANGED <<token, configured, pageId, remoteVars, op, pc, flatVars, inflight, calls, console,
                 outcome, cliVars>>

NextText == applyExtractTextContent

SpecText == InitText /\ [][NextText]_vars

----------------------------------------------------------------------------
(* What the claims speak of *)

Finished(name) == pc = "done" /\ op.name = name

IsList(c) == c.api = "blocks.children.list"

\* the blocks whose child listing failed in the current getPageBlocks run
FailedChildren ==
  {calls[k].id : k \in {j \in 2..Len(calls) : IsList(calls[j]) /\ calls[j].st = "error"}}

\* the record a block is expected to yield under a parent
Rec(b, p) ==
  [blockId |-> b.id, text |-> extractTextContent(b), blockType |-> b.type,
   parentBlockId |-> p]

\* pre-order traversal of the forest under a sequence of blocks; the subtree
\* below a block in `cut` is left out
RECURSIVE Walk(_, _, _)
Walk(bs, p, cut) ==
  IF bs = << >> THEN << >>
  ELSE LET b == Head(bs)
       IN <<Rec(b, p)>>
          \o (IF b.has_children /\ b.id \notin cut
              THEN Walk(ListResults(b.id), b.id, cut) ELSE << >>)
          \o Walk(Tail(bs), p, cut)

Preorder(page) == Walk(ListResults(page), Null, {})

RECURSIVE Descendants(_)
Descendants(id) ==
  LET cs == {kids[id][i] : i \in 1..Len(kids[id])}
  IN cs \cup UNION {Descendants(c) : c \in cs}

Ids(recs) == [i \in 1..Len(recs) |-> recs[i].blockId]

----------------------------------------------------------------------------
(* C1 *)

----------------------------------------------------------------------------
(* C2 *)

\* what flattening block b under parent p returns, given the listings that failed
Flat(b, p) == Walk(<<b>>, p, FailedChildren)

\* C2: every invocation of processBlockWithChildren holds, as its results, the
\* block's own record with the caller-supplied parent first, followed by the
\* complete flattened sequence of each child already processed, in the order the
\* children were returned and each under the block's id; so it returns its own
\* record followed by every returned child's flattened sequence, and exactly
\* one record when the block has no children.
C2_FlattenPreorder ==
  \A k \in 1..Len(stack) :
    LET f == stack[k]
        done == SubSeq(f.children, 1, f.i - 1)
    IN /\ f.parentId = (IF k = 1 THEN Null ELSE stack[k - 1].block.id)
       /\ f.results[1] = Rec(f.block, f.parentId)
       /\ f.results = <<Rec(f.block, f.parentId)>> \o Walk(done, f.block.id, FailedChildren)
       /\ f.pc = "loop" => f.children = ListResults(f.block.id)
       /\ (f.pc = "return" \/ (f.pc = "loop" /\ f.i > Len(f.children)))
            => f.results = Flat(f.block, f.parentId)
       /\ ~f.block.has_children => f.results = <<Rec(f.block, f.parentId)>>

\* a block two levels down is about to return its own record and its child's
C2_Witness ==
  /\ Len(stack) = 2
  /\ stack[2].pc = "loop" /\ stack[2].i > Len(stack[2].children)
  /\ Len(stack[2].results) = 2
  /\ stack[2].parentId = stack[1].block.id
  /\ stack[2].results[2].parentBlockId = stack[2].block.id

----------------------------------------------------------------------------
(* C3 *)

\* C3: in every sequence getPageBlocks returns, also when child listings
\* failed, a record with a parent identifier is preceded by the record of
\* that parent, and the records without one are the top-level blocks.
C3_ParentPrecedes ==
  (Finished("getPageBlocks") /\ outcome.status = "ok") =>
    \A i \in 1..Len(outcome.value) :
      LET r == outcome.value[i]
      IN /\ r.parentBlockId # Null =>
              \E j \in 1..(i - 1) : outcome.value[j].blockId = r.parentBlockId
         /\ r.parentBlockId = Null <=>
              \E t \in 1..Len(LiveKids(pageId)) : LiveKids(pageId)[t] = r.blockId

\* a run with a failed child listing that still returns a record with a parent
C3_Witness ==
  /\ Finished("getPageBlocks") /\ outcome.status = "ok"
  /\ FailedChildren # {}
  /\ \E i \in 1..Len(outcome.value) : outcome.value[i].parentBlockId # Null

----------------------------------------------------------------------------
(* C4 *)

\* C4: when the listing of a block's children fails, getPageBlocks still
\* returns; the block's own record is in the result, none of its descendants
\* is, and the result is the failure-free traversal with just those
\* descendants left out.
C4_ChildFailureContained ==
  (op.name = "getPageBlocks" /\ FailedChildren # {}) =>
    /\ outcome.status # "error"
    /\ pc = "done" =>
         /\ outcome.status = "ok"
         /\ \A b \in FailedChildren :
              /\ \E i \in 1..Len(outcome.value) : outcome.value[i].blockId = b
              /\ \A i \in 1..Len(outcome.value) :
                   outcome.value[i].blockId \notin Descendants(b)
         /\ outcome.value =
              SelectSeq(Preorder(pageId),
                        LAMBDA r : \A b \in FailedChildren : r.blockId \notin Descendants(b))

\* the listing of A's children failed; A and its later sibling are in the result
C4_Witness ==
  /\ Finished("getPageBlocks") /\ outcome.status = "ok"
  /\ FailedChildren = {"A"}
  /\ Descendants("A") # {}
  /\ Len(outcome.value) = 2
  /\ outcome.value[1].blockId = "A"
  /\ outcome.value[2].parentBlockId = Null

----------------------------------------------------------------------------
(* C5 *)

HasRichText(b) == b.payload # None /\ b.payload[1].rich_text # None
Segments(b) == IF HasRichText(b) THEN b.payload[1].rich_text[1] ELSE << >>
PlainValues(segs) ==
  [i \in 1..Len(segs) |->
     IF segs[i].plain_text = None THEN "" ELSE segs[i].plain_text[1]]

RECURSIVE ConcatInOrder(_)
ConcatInOrder(ss) ==
  IF ss = << >> THEN ""
  ELSE ConcatInOrder(SubSeq(ss, 1, Len(ss) - 1)) \o ss[Len(ss)]

Placeholder(b) == "[" \o b.type \o "]"

\* C5 (original): the text of a block is the in-order concatenation of the
\* plain_text values of its payload's rich-text segments when the payload
\* contains segments, and the bracketed type tag otherwise.
C5_Original ==
  probe.applied =>
    probe.text = IF Segments(probe.block) # << >>
                 THEN ConcatInOrder(PlainValues(Segments(probe.block)))
                 ELSE Placeholder(probe.block)

\* C5 (amended): the text of a block is the in-order concatenation of the
\* plain_text values of its payload's rich-text segments whenever the payload
\* has a rich-text list, an empty list giving the empty text; it is the
\* bracketed type tag only when the payload or its rich-text list is absent.
C5_TextProjection ==
  probe.applied =>
    probe.text = IF HasRichText(probe.block)
                 THEN ConcatInOrder(PlainValues(Segments(probe.block)))
                 ELSE Placeholder(probe.block)

\* the spec's example: segments "Hello, " and "world"
C5_Witness ==
  /\ probe.applied
  /\ Segments(probe.block) = <<Seg("Hello, "), Seg("world")>>
  /\ probe.text = "Hello, world"

----------------------------------------------------------------------------
(* C6 *)

IsAppendOf(c, text) == c.api = "blocks.children.append" /\ c.body = text

\* C6 (original): addText issues exactly one append request carrying the given
\* text; it targets the configured page when the parent-block identifier is
\* omitted and the given identifier whenever one is supplied.
C6_Original ==
  op.name = "addText" =>
    /\ Len(calls) = 1
    /\ IsAppendOf(calls[1], op.text)
    /\ calls[1].id = IF op.parent = Undefined THEN pageId ELSE op.parent

\* C6 (amended): addText issues exactly one append request carrying the given
\* text; it targets the configured page when the parent-block identifier is
\* omitted or is the empty string, and the given identifier whenever a
\* non-empty one is supplied.
C6_AddTextTarget ==
  op.name = "addText" =>
    /\ Len(calls) = 1
    /\ IsAppendOf(calls[1], op.text)
    /\ calls[1].id = IF op.parent \in {Undefined, ""} THEN pageId ELSE op.parent

\* a text appended under a given block of a page that is not the configured one
C6_Witness ==
  /\ Finished("addText") /\ outcome.status = "ok"
  /\ op.parent = "C" /\ pageId = "P1" /\ "C" \in Descendants("P2")
  /\ calls[1].id = "C"
  /\ outcome.value.results[1].parent = "C"

----------------------------------------------------------------------------
(* C7 *)

Warnings == SelectSeq(console, LAMBDA l : l.stream = "warn")

\* C7: once updateBlock has retrieved the block, a warning is produced exactly
\* when its type is not paragraph; either way exactly one update request, for
\* that block and text, follows, and the operation returns the service's block
\* or throws the service's error for that request.
C7_UpdateWarnsAndProceeds ==
  (op.name = "updateBlock" /\ calls[1].st = "ok") =>
    /\ Len(Warnings) = (IF blocks[op.id].type # "paragraph" THEN 1 ELSE 0)
    /\ Len(calls) = 2
    /\ calls[2].api = "blocks.update" /\ calls[2].id = op.id /\ calls[2].body = op.text
    /\ pc = "done" =>
         \/ /\ calls[2].st = "ok"
            /\ outcome = Returned(BlockObject(op.id))
            /\ Segments(outcome.value) = <<Seg(op.text)>>
         \/ /\ calls[2].st = "error"
            /\ outcome = Thrown(calls[2].err)

\* an image block: warned, the update issued all the same, the service's
\* rejection is the outcome
C7_Witness ==
  /\ Finished("updateBlock")
  /\ blocks[op.id].type = "image"
  /\ Len(Warnings) = 1
  /\ Len(calls) = 2 /\ calls[2].st = "error"
  /\ outcome.status = "error" /\ outcome.error = "rejected"

----------------------------------------------------------------------------
(* C8 *)

Propagating == {"getPage", "addText", "deleteBlock", "updateBlock", "getPageBlocks"}

\* C8: when a remote call of getPage, addText, deleteBlock or updateBlock, or
\* the top-level listing of getPageBlocks, fails, that call is the operation's
\* last, nothing is outstanding, and the operation has failed with that
\* call's error.
C8_FailurePropagates ==
  op.name \in Propagating =>
    \A k \in 1..Len(calls) :
      (calls[k].st = "error" /\ (op.name = "getPageBlocks" => k = 1)) =>
        /\ k = Len(calls)
        /\ inflight = {}
        /\ pc = "done"
        /\ outcome = Thrown(calls[k].err)

\* updateBlock whose retrieve failed: no update request was issued
C8_Witness ==
  /\ Finished("updateBlock")
  /\ Len(calls) = 1
  /\ calls[1].api = "blocks.retrieve" /\ calls[1].st = "error"
  /\ calls[1].err = "network"
  /\ outcome.error = "network"

----------------------------------------------------------------------------
(* C9 *)

\* C9: with NOTION_TOKEN missing a command reports the error before any facade
\* operation or remote call, and its process exits with a non-zero status.
C9_MissingTokenFatal ==
  (cli = "exited" /\ ~token) =>
    /\ \E i \in 1..Len(console) :
         console[i].stream = "error" /\ console[i].detail = MissingToken
    /\ op = NoOp
    /\ calls = << >>
    /\ exitCode # 0

----------------------------------------------------------------------------
(* C10 *)

\* C10: a deleteBlock that succeeds has issued exactly one delete request, for
\* the id passed in, and returns the service's block of that id with archived
\* true; the service still holds the block, archived.
C10_DeleteArchives ==
  (Finished("deleteBlock") /\ outcome.status = "ok") =>
    /\ calls = <<[Request("blocks.delete", op.id, "") EXCEPT !.st = "ok"]>>
    /\ outcome.value.id = op.id
    /\ outcome.value.archived = TRUE
    /\ op.id \in DOMAIN blocks /\ blocks[op.id].archived

\* B deleted: the returned block is B, archived
C10_Witness ==
  /\ Finished("deleteBlock") /\ outcome.status = "ok"
  /\ op.id = "B"
  /\ outcome.value.id = "B" /\ outcome.value.archived
  /\ Len(calls) = 1

----------------------------------------------------------------------------
(* C11 *)

ApisOf(cs) == {cs[k].api : k \in 1..Len(cs)}

\* what a step may do while the current operation is one of the four
ReadOnlyStep ==
  /\ op'.name \in {"getPage", "getPageBlocks", "setPageId", "getPageId"} =>
       /\ blocks' = blocks
       /\ kids' = kids
       /\ muts' = muts
  /\ op'.name = "getPage" => ApisOf(calls') \subseteq {"pages.retrieve"}
  /\ op'.name = "getPageBlocks" => ApisOf(calls') \subseteq {"blocks.children.list"}
  /\ op'.name \in {"setPageId", "getPageId"} => calls' = << >> /\ inflight' = {}

\* C11: no step of getPage, getPageBlocks, setPageId or getPageId changes the
\* remote service's state; getPage issues only page retrievals, getPageBlocks
\* only child listings, and setPageId and getPageId issue no request at all.
C11_ReadOnly == [][ReadOnlyStep]_vars

\* a listing of a page that was changed before it, and is as it was left
C11_Witness ==
  /\ Finished("getPageBlocks") /\ outcome.status = "ok"
  /\ Len(calls) >= 2
  /\ muts = 1

----------------------------------------------------------------------------
(* C12 *)

Targets(api, id) == calls # << >> /\ calls[1].api = api /\ calls[1].id = id

\* C12: at every moment the wrapper's page identifier is the one last given to
\* it, by the latest setPageId call or else at construction; getPageId
\* returns it, and getPage, getPageBlocks and an addText without a parent
\* block address their request to it.
C12_ConfiguredPage ==
  /\ pageId = configured
  /\ Finished("getPageId") => outcome = Returned(configured)
  /\ op.name = "getPage" => Targets("pages.retrieve", configured)
  /\ op.name = "getPageBlocks" => Targets("blocks.children.list", configured)
  /\ (op.name = "addText" /\ op.parent = Undefined) =>
       Targets("blocks.children.append", configured)

\* the library set to the other page, then listing it
C12_Witness ==
  /\ Finished("getPageBlocks")
  /\ cli = "none"
  /\ configured = "P2" /\ configured # NOTION_PAGE_ID
  /\ calls[1].id = "P2"

----------------------------------------------------------------------------
(* C13 *)

RECURSIVE ResultsOf(_)
ResultsOf(frames) ==
  IF frames = << >> THEN << >>
  ELSE Head(frames).results \o ResultsOf(Tail(frames))

\* the records produced so far, in the order they will have in the result
Collected == acc \o ResultsOf(stack)

IsPrefix(p, s) == Len(p) <= Len(s) /\ SubSeq(s, 1, Len(p)) = p

\* the blocks a child listing was requested for, in the order of the requests
Requested == [k \in 1..(Len(calls) - 1) |-> calls[k + 1].id]

\* C13: within one getPageBlocks run at most one request is outstanding, and
\* it is the latest one: every earlier request has been answered. The records
\* produced so far are always an initial part of the final order, the child
\* listings are requested in that order, one per block with children, and while
\* the listing of a block is outstanding that block's record is the last one
\* produced: the subtrees of all its preceding siblings are already flattened.
C13_Sequential ==
  op.name = "getPageBlocks" =>
    /\ Cardinality(inflight) <= 1
    /\ \A k \in 1..Len(calls) : calls[k].st = "pending" <=> k \in inflight
    /\ inflight \subseteq {Len(calls)}
    /\ pc = "getPageBlocks.loop" =>
         /\ IsPrefix(Collected, Walk(topBlocks, Null, FailedChildren))
         /\ Requested = SelectSeq(Ids(Collected), LAMBDA id : LiveKids(id) # << >>)
         /\ inflight # {} =>
              /\ stack # << >>
              /\ Top.pc = "await"
              /\ Awaited.id = Top.block.id
              /\ Collected[Len(Collected)] = Rec(Top.block, Top.parentId)
    /\ (pc = "done" /\ outcome.status = "ok") =>
         /\ outcome.value = Collected
         /\ Requested = SelectSeq(Ids(outcome.value), LAMBDA id : LiveKids(id) # << >>)

\* the listing of a second top-level block is outstanding; the first one's
\* listing was answered and its subtree is in the result already
C13_Witness ==
  /\ op.name = "getPageBlocks"
  /\ Len(stack) = 1 /\ Top.pc = "await"
  /\ topIdx = 2
  /\ Len(calls) = 3 /\ calls[2].st = "ok" /\ inflight = {3}
  /\ Len(acc) >= 2
  /\ acc[2].parentBlockId = acc[1].blockId

====
